---------------------------- MODULE Spec2Model ----------------------------
(***************************************************************************)
(* Model of adaptive-cloud-dashboard/cloud_simulation_api.py: the global   *)
(* simulation_state, the WebSocketManager registry and broadcast pass, the *)
(* three scenario stepper coroutines and the REST handlers that start,     *)
(* stop and reset them.  The server runs on one asyncio event loop, so a   *)
(* coroutine runs atomically from one await to the next; every action      *)
(* below is one such run.                                                  *)
(*                                                                         *)
(* Percentages are integers in units of 1/600 of a percentage point, which *)
(* makes the products by 1.2, 0.8, 0.6, 0.7, 0.4, 0.9, 1.5 and the         *)
(* division by 3 of scenario 2 exact.                                      *)
(***************************************************************************)
EXTENDS Integers, Sequences, FiniteSets, TLC

\* ------------------------------------------------------------- bounds
\* Stepper tasks ever created by asyncio.create_task: in the specification
\* of the run controller (Spec), and in the ones of a single run.
MaxTasks == 2
RunTasks == 1
\* WebSocket connections ever accepted.
MaxSubs == 2
\* Largest deviate (in standard deviations) drawn from np.random.normal.
MaxDev == 3

U == 6 * 100

Min(a, b) == IF a <= b THEN a ELSE b
Max(a, b) == IF a >= b THEN a ELSE b

\* SeqRuns: steppers created one after the other, each after the last ended.
SeqRuns == 2
Tasks == 1..Max(Max(MaxTasks, RunTasks), SeqRuns)
Sockets == 1..MaxSubs
\* Path parameters of POST /api/scenario/{scenario_id}: the three valid ids
\* and two invalid ones.
ScenarioIds == 0..4

VARIABLES
    running,            \* simulation_state["running"]
    scenario,           \* simulation_state["scenario"]
    metrics,            \* simulation_state["metrics"]
    zone_status,        \* simulation_state["zone_status"]
    hosts,              \* simulation_state["hosts"]
    vms,                \* simulation_state["vms"]
    active_connections, \* manager.active_connections (a list)
    sock,               \* state of each WebSocket's transport
    task,               \* the stepper coroutines created by create_task
    resp,               \* the response to the last REST request
    stopped,            \* steppers alive when stop/reset last returned
    dropped,            \* sockets whose send failed in a returned broadcast
    sent,               \* the message of each stepper's last broadcast call
    passes              \* the order of the broadcast passes in progress

vars == <<running, scenario, metrics, zone_status, hosts, vms,
          active_connections, sock, task, resp, stopped, dropped, sent,
          passes>>

\* ------------------------------------------------------------ inventory
Host(i) ==
    [host_id |-> i, total_cpu |-> 200, total_ram |-> 16000,
     total_storage |-> 500000, total_bandwidth |-> 1000,
     available_cpu |-> 200, available_ram |-> 16000,
     available_storage |-> 500000, available_bandwidth |-> 1000]

\* v is the deviate of the four np.random.normal draws of one VM.
VirtualMachine(i, v) ==
    [vm_id |-> i,
     cpu_req |-> Max(10, 50 + 20 * v),
     ram_req |-> Max(1000, 4000 + 1500 * v),
     storage_req |-> Max(10000, 50000 + 20000 * v),
     bandwidth_req |-> Max(10, 100 + 30 * v),
     migration_count |-> 0]

NumHosts == 5
NumVMs == 15

\* The deviates one call of initialize_simulation may draw: VM i gets the
\* deviate seed + i reduced into -MaxDev..MaxDev.
Seeds == 0..1
\* The seed of the call made by startup_event.
StartupSeed == CHOOSE seed \in Seeds : \A o \in Seeds : seed <= o
VmDeviate(seed, i) == ((seed + i) % (2 * MaxDev + 1)) - MaxDev

initialize_hosts == [i \in 1..NumHosts |-> Host(i - 1)]
initialize_vms(seed) ==
    [i \in 1..NumVMs |-> VirtualMachine(i - 1, VmDeviate(seed, i))]

\* ------------------------------------------------------------- snapshot
ZeroMetrics ==
    [cpu_utilization |-> 0, ram_usage |-> 0, storage_usage |-> 0,
     bandwidth_usage |-> 0, vm_migration_count |-> 0]

Zone(c, u) == [vm_count |-> c, utilization |-> u]

ZeroZones ==
    [high_resource_slow |-> Zone(0, 0), medium |-> Zone(0, 0),
     fast_small |-> Zone(0, 0)]


\* ------------------------------------------------------ scenario formulas
\* One loop iteration's random draws: n, z are the deviates of the
\* np.random.normal draws of the metrics and of the zones, r the
\* np.random.randint results of the zones' vm_count, u is
\* np.random.random() < 0.3 and k is np.random.randint(1, 4).
Deviates == -MaxDev..MaxDev
AllDraws ==
    [n : Deviates \X Deviates \X Deviates \X Deviates,
     z : Deviates \X Deviates \X Deviates,
     r : (-2..2) \X (-1..1) \X (-1..1),
     u : BOOLEAN, k : 1..3]
LowDraw ==
    [n |-> <<-MaxDev, -MaxDev, -MaxDev, -MaxDev>>,
     z |-> <<-MaxDev, -MaxDev, -MaxDev>>,
     r |-> <<-2, -1, -1>>, u |-> FALSE, k |-> 1]
HighDraw ==
    [n |-> <<MaxDev, MaxDev, MaxDev, MaxDev>>,
     z |-> <<MaxDev, MaxDev, MaxDev>>,
     r |-> <<2, 1, 1>>, u |-> TRUE, k |-> 3]
\* The draws the interleaving specifications explore.
StepDraws == {LowDraw}

\* TailDev: the largest magnitude of a normal deviate the numeric
\* specification explores, in standard deviations.
TailDev == 12
TailDeviates == {-TailDev, 0, TailDev}
\* Draws that reach the tails: the same deviate for the four metrics, the
\* same for the three zones, and the uniform draws all low or all high.
RangeDraws ==
    {[n |-> <<a, a, a, a>>, z |-> <<b, b, b>>,
      r |-> IF hi THEN <<2, 1, 1>> ELSE <<-2, -1, -1>>,
      u |-> hi, k |-> IF hi THEN 3 ELSE 1] :
        a \in TailDeviates, b \in TailDeviates, hi \in BOOLEAN}

Scenario1Steps == 30
Scenario2Steps == 25
Scenario3Steps == 20

StepCount(id) ==
    CASE id = 1 -> Scenario1Steps
      [] id = 2 -> Scenario2Steps
      [] id = 3 -> Scenario3Steps

Label(id) ==
    CASE id = 1 -> "high_load"
      [] id = 2 -> "zone_migration"
      [] id = 3 -> "resource_scaling"

scenario_1_step(step, mig, d) ==
    LET cpu_util == Min(95 * U, 60 * U + step * 720 + 5 * U * d.n[1])
        ram_usage == Min(90 * U, 50 * U + step * U + 3 * U * d.n[2])
        storage_usage == Min(85 * U, 40 * U + step * 480 + 2 * U * d.n[3])
        bandwidth_usage == Min(80 * U, 35 * U + step * 360 + 4 * U * d.n[4])
        migration_count ==
            IF cpu_util > 80 * U /\ d.u THEN mig + 1 ELSE mig
    IN  [metrics |->
            [cpu_utilization |-> Max(0, cpu_util),
             ram_usage |-> Max(0, ram_usage),
             storage_usage |-> Max(0, storage_usage),
             bandwidth_usage |-> Max(0, bandwidth_usage),
             vm_migration_count |-> migration_count],
         zone_status |->
            [high_resource_slow |->
                Zone(Max(0, 8 + d.r[1]),
                     Min(100 * U, cpu_util + 10 * U * d.z[1])),
             medium |->
                Zone(Max(0, 5 + d.r[2]),
                     Min(100 * U, (cpu_util * 7) \div 10 + 5 * U * d.z[2])),
             fast_small |->
                Zone(Max(0, 2 + d.r[3]),
                     Min(100 * U, (cpu_util * 4) \div 10 + 3 * U * d.z[3]))]]

scenario_2_step(step, mig, d) ==
    LET high_zone_load ==
            IF step < 10 THEN 90 * U - step * 2 * U
            ELSE Max(40 * U, 70 * U - (step - 10) * 2 * U)
        medium_zone_load ==
            IF step < 10 THEN 40 * U + step * 3 * U
            ELSE Min(80 * U, 60 * U + (step - 10) * U)
        fast_zone_load ==
            IF step < 10 THEN 20 * U + step * U
            ELSE Min(60 * U, 30 * U + (step - 10) * 900)
        migration_count ==
            IF step >= 8 /\ step <= 15 THEN mig + d.k ELSE mig
        avg_utilization ==
            (high_zone_load + medium_zone_load + fast_zone_load) \div 3
    IN  [metrics |->
            [cpu_utilization |-> avg_utilization,
             ram_usage |-> (avg_utilization * 9) \div 10,
             storage_usage |-> (avg_utilization * 7) \div 10,
             bandwidth_usage |-> (avg_utilization * 6) \div 10,
             vm_migration_count |-> migration_count],
         zone_status |->
            [high_resource_slow |->
                Zone(Max(2, (80 - 2 * step) \div 10), Max(0, high_zone_load)),
             medium |->
                Zone(Max(3, (50 + step) \div 10), Max(0, medium_zone_load)),
             fast_small |->
                Zone(Max(1, (20 + step) \div 10), Max(0, fast_zone_load))]]

\* floor(1000 * sin(step * f)) for step = 0..19 and f = 0.3, 0.2, 0.15, 0.25.
Sin030 == <<0, 295, 564, 783, 932, 997, 973, 863, 675, 427, 141, -158, -443, -688, -872, -978, -997, -926, -773, -551>>
Sin020 == <<0, 198, 389, 564, 717, 841, 932, 985, 999, 973, 909, 808, 675, 515, 334, 141, -59, -256, -443, -612>>
Sin015 == <<0, 149, 295, 434, 564, 681, 783, 867, 932, 975, 997, 996, 973, 928, 863, 778, 675, 557, 427, 287>>
Sin025 == <<0, 247, 479, 681, 841, 948, 997, 983, 909, 778, 598, 381, 141, -109, -351, -572, -757, -895, -978, -1000>>

\* Mutant: cpu_utilization is written without the upper clamp.
scenario_3_step_unclamped(step, mig, d) ==
    LET scaled(b) == (b * U * (2000 + Sin030[step + 1])) \div 2000
        base_cpu == scaled(45) + 5 * U * d.n[1]
        base_ram == scaled(50) + 3 * U * d.n[2]
        base_storage == scaled(35) + 4 * U * d.n[3]
        base_bandwidth == scaled(40) + 6 * U * d.n[4]
        total_utilization ==
            (base_cpu + base_ram + base_storage + base_bandwidth) \div 4
    IN  [metrics |->
            [cpu_utilization |-> Max(0, base_cpu),
             ram_usage |-> Min(100 * U, Max(0, base_ram)),
             storage_usage |-> Min(100 * U, Max(0, base_storage)),
             bandwidth_usage |-> Min(100 * U, Max(0, base_bandwidth)),
             vm_migration_count |-> mig + (IF step % 4 = 0 THEN 1 ELSE 0)],
         zone_status |->
            [high_resource_slow |->
                Zone(Max(2, (6000 + 2 * Sin020[step + 1]) \div 1000),
                     Min(100 * U, Max(0, (total_utilization * 12) \div 10))),
             medium |->
                Zone(Max(3, (7000 + Sin015[step + 1]) \div 1000),
                     Min(100 * U, Max(0, total_utilization))),
             fast_small |->
                Zone(Max(1, (3000 + Sin025[step + 1]) \div 1000),
                     Min(100 * U, Max(0, (total_utilization * 8) \div 10)))]]

scenario_3_step(step, mig, d) ==
    LET scaled(b) == (b * U * (2000 + Sin030[step + 1])) \div 2000
        base_cpu == scaled(45) + 5 * U * d.n[1]
        base_ram == scaled(50) + 3 * U * d.n[2]
        base_storage == scaled(35) + 4 * U * d.n[3]
        base_bandwidth == scaled(40) + 6 * U * d.n[4]
        total_utilization ==
            (base_cpu + base_ram + base_storage + base_bandwidth) \div 4
    IN  [metrics |->
            [cpu_utilization |-> Min(100 * U, Max(0, base_cpu)),
             ram_usage |-> Min(100 * U, Max(0, base_ram)),
             storage_usage |-> Min(100 * U, Max(0, base_storage)),
             bandwidth_usage |-> Min(100 * U, Max(0, base_bandwidth)),
             vm_migration_count |-> mig + (IF step % 4 = 0 THEN 1 ELSE 0)],
         zone_status |->
            [high_resource_slow |->
                Zone(Max(2, (6000 + 2 * Sin020[step + 1]) \div 1000),
                     Min(100 * U, Max(0, (total_utilization * 12) \div 10))),
             medium |->
                Zone(Max(3, (7000 + Sin015[step + 1]) \div 1000),
                     Min(100 * U, Max(0, total_utilization))),
             fast_small |->
                Zone(Max(1, (3000 + Sin025[step + 1]) \div 1000),
                     Min(100 * U, Max(0, (total_utilization * 8) \div 10)))]]

scenario_step(id, step, mig, d) ==
    CASE id = 1 -> scenario_1_step(step, mig, d)
      [] id = 2 -> scenario_2_step(step, mig, d)
      [] id = 3 -> scenario_3_step(step, mig, d)

\* ------------------------------------------------------------- registry
Range(q) == {q[i] : i \in 1..Len(q)}

\* list.remove(websocket) guarded by "websocket in self.active_connections":
\* the first occurrence is deleted.
\* Mutant: the head of the list is removed, whichever connection it is.
disconnect_head(conns, ws) ==
    IF conns = <<>> THEN <<>> ELSE Tail(conns)

\* "if websocket in self.active_connections: ...remove(websocket)"
RECURSIVE disconnect(_, _)
disconnect(conns, ws) ==
    IF conns = <<>> THEN <<>>
    ELSE IF Head(conns) = ws THEN Tail(conns)
    ELSE <<Head(conns)>> \o disconnect(Tail(conns), ws)

\* Mutant: the failed connections are collected and never removed.
remove_disconnected_skipped(conns, disconnected) == conns

\* "for conn in disconnected: self.disconnect(conn)"
RECURSIVE remove_disconnected(_, _)
remove_disconnected(conns, disconnected) ==
    IF disconnected = <<>> THEN conns
    ELSE remove_disconnected(disconnect(conns, Head(disconnected)),
                             Tail(disconnected))

\* The response of the REST handler that ran in the last step, NoResponse
\* after a step of any other coroutine.
Response(op, code) == [op |-> op, code |-> code]
NoResponse == Response("none", 0)

\* ---------------------------------------------------------------- tasks
\* pc: "none" (not created), "spawned" (created, not yet run), "send"
\* (suspended in await connection.send_text), "sleep" (suspended in await
\* asyncio.sleep), "done" (the coroutine returned).  step counts the loop
\* iterations begun.  idx is the list iterator's position, cur the
\* connection of the pending send, disconnected the pass's local list.
\* at_start and attempts record, for the pass in progress, the membership
\* when broadcast was called and the connections it has sent to.
NoTask ==
    [pc |-> "none", id |-> 0, step |-> 0, idx |-> 0, cur |-> 0,
     disconnected |-> <<>>, at_start |-> <<>>, attempts |-> <<>>]

Spawned(id) == [NoTask EXCEPT !.pc = "spawned", !.id = id]

Sleeping(tk) ==
    [NoTask EXCEPT !.pc = "sleep", !.id = tk.id, !.step = tk.step]

Finished(tk) ==
    [NoTask EXCEPT !.pc = "done", !.id = tk.id, !.step = tk.step]

Alive == {t \in Tasks : task[t].pc \in {"spawned", "send", "sleep"}}
Created == {t \in Tasks : task[t].pc # "none"}
FreeTask == CHOOSE t \in Tasks \ Created : \A o \in Tasks \ Created : t <= o

\* manager.broadcast up to its first await: nothing to do on an empty
\* list, otherwise the iterator yields the first connection and the
\* coroutine suspends in send_text.
broadcast_call(tk, conns) ==
    IF conns = <<>> THEN Sleeping(tk)
    ELSE [tk EXCEPT !.pc = "send", !.idx = 1, !.cur = conns[1],
                    !.disconnected = <<>>, !.at_start = conns,
                    !.attempts = <<conns[1]>>]

\* Mutant: send_text is not wrapped in try/except, so a failed send ends
\* the pass and the stepper coroutine with it.
broadcast_resume_raises(tk, conns, ok) ==
    IF ~ok
    THEN [task |-> [NoTask EXCEPT !.pc = "done", !.id = tk.id,
                                  !.step = tk.step],
          conns |-> conns, removed |-> {}]
    ELSE IF tk.idx < Len(conns)
    THEN [task |-> [tk EXCEPT !.idx = tk.idx + 1,
                              !.cur = conns[tk.idx + 1],
                              !.attempts = Append(tk.attempts,
                                                  conns[tk.idx + 1])],
          conns |-> conns, removed |-> {}]
    ELSE [task |-> [NoTask EXCEPT !.pc = "sleep", !.id = tk.id,
                                  !.step = tk.step],
          conns |-> conns, removed |-> {}]

\* Mutant: a send that raised is tried once more on the same connection.
broadcast_resume_retries(tk, conns, ok) ==
    LET disc == IF ok THEN tk.disconnected
                ELSE Append(tk.disconnected, tk.cur)
    IN  IF ~ok /\ tk.cur \notin Range(tk.disconnected)
        THEN [task |-> [tk EXCEPT !.disconnected = disc,
                                  !.attempts = Append(tk.attempts, tk.cur)],
              conns |-> conns, removed |-> {}]
        ELSE IF tk.idx < Len(conns)
        THEN [task |-> [tk EXCEPT !.idx = tk.idx + 1,
                                  !.cur = conns[tk.idx + 1],
                                  !.disconnected = disc,
                                  !.attempts = Append(tk.attempts,
                                                      conns[tk.idx + 1])],
              conns |-> conns, removed |-> {}]
        ELSE [task |-> Sleeping(tk),
              conns |-> remove_disconnected(conns, disc),
              removed |-> Range(disc)]

\* The send of tk.cur completed (ok) or raised (~ok): the except clause
\* collects the connection, the iterator yields the next element of the
\* live list, and after the last one the collected connections are removed.
broadcast_resume(tk, conns, ok) ==
    LET disc == IF ok THEN tk.disconnected
                ELSE Append(tk.disconnected, tk.cur)
    IN  IF tk.idx < Len(conns)
        THEN [task |-> [tk EXCEPT !.idx = tk.idx + 1,
                                  !.cur = conns[tk.idx + 1],
                                  !.disconnected = disc,
                                  !.attempts = Append(tk.attempts,
                                                      conns[tk.idx + 1])],
              conns |-> conns, removed |-> {}]
        ELSE [task |-> Sleeping(tk),
              conns |-> remove_disconnected(conns, disc),
              removed |-> Range(disc)]

\* Mutant: the step writes metrics, and zone_status only after the pause.
loop_body_torn(t, d) ==
    LET tk == task[t]
        r == scenario_step(tk.id, tk.step, metrics.vm_migration_count, d)
    IN  /\ metrics' = r.metrics
        /\ zone_status' = zone_status
        /\ task' = [task EXCEPT
                ![t] = broadcast_call([tk EXCEPT !.step = tk.step + 1],
                                      active_connections)]

\* One loop iteration up to its first await: the snapshot is written, then
\* broadcast is called.
loop_body(t, d) ==
    LET tk == task[t]
        r == scenario_step(tk.id, tk.step, metrics.vm_migration_count, d)
    IN  /\ metrics' = r.metrics
        /\ zone_status' = r.zone_status
        /\ task' = [task EXCEPT
                ![t] = broadcast_call([tk EXCEPT !.step = tk.step + 1],
                                      active_connections)]

\* The created task runs for the first time: the scenario label is set
\* and the first iteration runs.  The event loop runs the first steps of
\* tasks in the order of their creation.
scenario_begin(t, d) ==
    /\ task[t].pc = "spawned"
    /\ \A o \in Tasks : o < t => task[o].pc # "spawned"
    /\ scenario' = Label(task[t].id)
    /\ loop_body(t, d)
    /\ resp' = NoResponse
    /\ UNCHANGED <<running, hosts, vms, active_connections, sock,
                   stopped, dropped>>

\* asyncio.sleep returned and range() has another step.
scenario_next(t, d) ==
    /\ task[t].pc = "sleep"
    /\ task[t].step < StepCount(task[t].id)
    /\ loop_body(t, d)
    /\ resp' = NoResponse
    /\ UNCHANGED <<running, scenario, hosts, vms, active_connections, sock, stopped, dropped>>

\* Mutant: the loop ends one step early.
scenario_end_early(t) ==
    /\ task[t].pc = "sleep"
    /\ task[t].step = StepCount(task[t].id) - 1
    /\ task' = [task EXCEPT ![t] = Finished(task[t])]
    /\ resp' = NoResponse
    /\ UNCHANGED <<running, scenario, metrics, zone_status, hosts, vms,
                   active_connections, sock, stopped, dropped>>

\* Mutant: the coroutine clears running and the label before it returns.
scenario_end_idle(t) ==
    /\ task[t].pc = "sleep"
    /\ task[t].step = StepCount(task[t].id)
    /\ task' = [task EXCEPT ![t] = Finished(task[t])]
    /\ running' = FALSE
    /\ scenario' = "idle"
    /\ resp' = NoResponse
    /\ UNCHANGED <<metrics, zone_status, hosts, vms,
                   active_connections, sock, stopped, dropped>>

\* asyncio.sleep returned and range() is exhausted: the coroutine returns.
scenario_end(t) ==
    /\ task[t].pc = "sleep"
    /\ task[t].step = StepCount(task[t].id)
    /\ task' = [task EXCEPT ![t] = Finished(task[t])]
    /\ resp' = NoResponse
    /\ UNCHANGED <<running, scenario, metrics, zone_status, hosts, vms,
                   active_connections, sock, stopped, dropped>>

\* A send to an open connection succeeds; a send to a connection whose
\* peer has gone may still be buffered or may raise.
SendOutcomes(ws) == IF sock[ws] = "open" THEN {TRUE} ELSE {TRUE, FALSE}

send_text_done(t, ok) ==
    /\ task[t].pc = "send"
    /\ ok \in SendOutcomes(task[t].cur)
    /\ LET r == broadcast_resume(task[t], active_connections, ok)
       IN  /\ task' = [task EXCEPT ![t] = r.task]
           /\ active_connections' = r.conns
           /\ dropped' = dropped \cup r.removed
    /\ resp' = NoResponse
    /\ UNCHANGED <<running, scenario, metrics, zone_status, hosts, vms,
                   sock, stopped>>

\* ------------------------------------------------------------ websockets
\* websocket_endpoint: accept, then append.
connect(ws) ==
    /\ sock[ws] = "new"
    /\ sock' = [sock EXCEPT ![ws] = "open"]
    /\ active_connections' = Append(active_connections, ws)
    /\ resp' = NoResponse
    /\ UNCHANGED <<running, scenario, metrics, zone_status, hosts, vms,
                   task, stopped, dropped>>

\* The peer closes or vanishes.
client_close(ws) ==
    /\ sock[ws] = "open"
    /\ sock' = [sock EXCEPT ![ws] = "broken"]
    /\ resp' = NoResponse
    /\ UNCHANGED <<running, scenario, metrics, zone_status, hosts, vms,
                   active_connections, task, stopped, dropped>>

\* receive_text raises WebSocketDisconnect in websocket_endpoint.
endpoint_disconnect(ws) ==
    /\ sock[ws] = "broken"
    /\ sock' = [sock EXCEPT ![ws] = "gone"]
    /\ active_connections' = disconnect(active_connections, ws)
    /\ resp' = NoResponse
    /\ UNCHANGED <<running, scenario, metrics, zone_status, hosts, vms,
                   task, stopped, dropped>>

\* ------------------------------------------------------------------ REST
\* Mutant: the handler does not look at the running flag.
start_scenario_unguarded(scenario_id, cap) ==
    IF scenario_id \in {1, 2, 3}
    THEN /\ Cardinality(Created) < cap
         /\ running' = TRUE
         /\ task' = [task EXCEPT ![FreeTask] = Spawned(scenario_id)]
         /\ resp' = Response("start", 200)
         /\ UNCHANGED <<scenario, metrics, zone_status, hosts, vms,
                        active_connections, sock, stopped, dropped>>
    ELSE /\ running' = FALSE
         /\ resp' = Response("start", 500)
         /\ UNCHANGED <<scenario, metrics, zone_status, hosts, vms,
                        active_connections, sock, task, stopped, dropped>>

\* cap bounds the tasks the model lets the handler create.
start_scenario(scenario_id, cap) ==
    IF running
    THEN /\ resp' = Response("start", 400)
         /\ UNCHANGED <<running, scenario, metrics, zone_status, hosts, vms,
                        active_connections, sock, task, stopped, dropped>>
    ELSE IF scenario_id \in {1, 2, 3}
    THEN /\ Cardinality(Created) < cap
         /\ running' = TRUE
         /\ task' = [task EXCEPT ![FreeTask] = Spawned(scenario_id)]
         /\ resp' = Response("start", 200)
         /\ UNCHANGED <<scenario, metrics, zone_status, hosts, vms,
                        active_connections, sock, stopped, dropped>>
    ELSE \* the HTTPException(400) of the else branch is raised inside the
         \* try and caught by "except Exception", which answers 500
         /\ running' = FALSE
         /\ resp' = Response("start", 500)
         /\ UNCHANGED <<scenario, metrics, zone_status, hosts, vms,
                        active_connections, sock, task, stopped, dropped>>

\* Mutant: the handler clears the flag and leaves the scenario label.
stop_simulation_keeps_label ==
    /\ running' = FALSE
    /\ resp' = Response("stop", 200)
    /\ stopped' = stopped \cup Alive
    /\ UNCHANGED <<scenario, metrics, zone_status, hosts, vms,
                   active_connections, sock, task, dropped>>

\* Mutant: the handler also zeroes the metrics, as reset does.
stop_simulation_zeroes ==
    /\ running' = FALSE
    /\ scenario' = "idle"
    /\ metrics' = ZeroMetrics
    /\ resp' = Response("stop", 200)
    /\ stopped' = stopped \cup Alive
    /\ UNCHANGED <<zone_status, hosts, vms, active_connections,
                   sock, task, dropped>>

\* POST /api/stop
stop_simulation ==
    /\ running' = FALSE
    /\ scenario' = "idle"
    /\ resp' = Response("stop", 200)
    /\ stopped' = stopped \cup Alive
    /\ UNCHANGED <<metrics, zone_status, hosts, vms, active_connections,
                   sock, task, dropped>>

\* Mutant: the handler zeroes the percentages and keeps the counter.
reset_simulation_keeps_count(seed) ==
    /\ running' = FALSE
    /\ scenario' = "idle"
    /\ metrics' = [ZeroMetrics EXCEPT
            !.vm_migration_count = metrics.vm_migration_count]
    /\ zone_status' = ZeroZones
    /\ hosts' = initialize_hosts
    /\ vms' = initialize_vms(seed)
    /\ resp' = Response("reset", 200)
    /\ stopped' = stopped \cup Alive
    /\ UNCHANGED <<active_connections, sock, task, dropped>>

reset_simulation(seed) ==
    /\ running' = FALSE
    /\ scenario' = "idle"
    /\ metrics' = ZeroMetrics
    /\ zone_status' = ZeroZones
    /\ hosts' = initialize_hosts
    /\ vms' = initialize_vms(seed)
    /\ resp' = Response("reset", 200)
    /\ stopped' = stopped \cup Alive
    /\ UNCHANGED <<active_connections, sock, task, dropped>>

\* GET /api/status: the four entries of simulation_state as they are when
\* the handler runs.
get_status ==
    /\ resp' = [op |-> "status", code |-> 200,
                simulation_running |-> running,
                current_scenario |-> scenario,
                metrics |-> metrics,
                zone_status |-> zone_status]
    /\ UNCHANGED <<running, scenario, metrics, zone_status, hosts, vms,
                   active_connections, sock, task, stopped, dropped>>

\* ------------------------------------------------------------- messages
\* The message a stepper hands to broadcast: the metrics and zone_status
\* entries as they are right after the step's write.
Message(m, z) == [data |-> m, zone_status |-> z]
NoMessage == Message(ZeroMetrics, ZeroZones)

\* A stepper that took a step (its step counter moved) called broadcast
\* with the snapshot that step wrote.
Observe ==
    /\ sent' = [t \in Tasks |->
                IF task'[t].step # task[t].step
                THEN Message(metrics', zone_status')
                ELSE sent[t]]
    /\ UNCHANGED passes

\* For the broadcast pass a stepper has in progress: earlier, the steppers
\* whose pass was called before it and has not returned; late, the sockets
\* that were sent the message of a pass called after it before this pass
\* sent them its own.
NoPass == [earlier |-> {}, late |-> {}]

\* The step called broadcast in task t / started a send in task t.
Called(t) == task'[t].step # task[t].step
SendStarted(t) ==
    /\ task'[t].pc = "send"
    /\ Called(t) \/ Len(task'[t].attempts) > Len(task[t].attempts)

ObserveOrder ==
    LET earlier(t) ==
            IF Called(t)
            THEN {p \in Tasks \ {t} : task[p].pc = "send"}
            ELSE {p \in passes[t].earlier : task'[p].pc = "send"}
        overtaken(t) ==
            {task'[q].cur : q \in
                {q \in Tasks \ {t} :
                    /\ SendStarted(q)
                    /\ t \in earlier(q)
                    /\ task'[q].cur \notin Range(task[t].attempts)}}
    IN  /\ passes' = [t \in Tasks |->
                IF task'[t].pc # "send" THEN NoPass
                ELSE [earlier |-> earlier(t),
                      late |-> IF Called(t) THEN {}
                               ELSE passes[t].late \cup overtaken(t)]]
        /\ UNCHANGED sent

Unobserved == UNCHANGED <<sent, passes>>

\* -------------------------------------------------------- specification
\* The state once startup_event has run initialize_simulation.
Init ==
    /\ running = FALSE
    /\ scenario = "idle"
    /\ metrics = ZeroMetrics
    /\ zone_status = ZeroZones
    /\ hosts = initialize_hosts
    /\ vms = initialize_vms(StartupSeed)
    /\ active_connections = <<>>
    /\ sock = [ws \in Sockets |-> "new"]
    /\ task = [t \in Tasks |-> NoTask]
    /\ resp = NoResponse
    /\ stopped = {}
    /\ dropped = {}
    /\ sent = [t \in Tasks |-> NoMessage]
    /\ passes = [t \in Tasks |-> NoPass]

\* The run controller and its steppers, with no WebSocket client.
Next ==
    \/ \E scenario_id \in ScenarioIds : start_scenario(scenario_id, MaxTasks) /\ Unobserved
    \/ stop_simulation /\ Unobserved
    \/ \E seed \in Seeds : reset_simulation(seed) /\ Unobserved
    \/ \E t \in Tasks, d \in StepDraws : scenario_begin(t, d) /\ Unobserved
    \/ \E t \in Tasks, d \in StepDraws : scenario_next(t, d) /\ Unobserved
    \/ \E t \in Tasks : scenario_end(t) /\ Unobserved

Spec == Init /\ [][Next]_vars

\* The same with RunTasks steppers.
NextRun ==
    \/ \E scenario_id \in ScenarioIds : start_scenario(scenario_id, RunTasks) /\ Unobserved
    \/ stop_simulation /\ Unobserved
    \/ \E seed \in Seeds : reset_simulation(seed) /\ Unobserved
    \/ \E t \in Tasks, d \in StepDraws : scenario_begin(t, d) /\ Unobserved
    \/ \E t \in Tasks, d \in StepDraws : scenario_next(t, d) /\ Unobserved
    \/ \E t \in Tasks : scenario_end(t) /\ Unobserved

SpecRun == Init /\ [][NextRun]_vars

\* One scenario run that is never stopped, broadcasting to WebSocket
\* clients that connect and go away.
NextWs ==
    \/ \E scenario_id \in ScenarioIds : start_scenario(scenario_id, RunTasks) /\ Unobserved
    \/ \E t \in Tasks, d \in StepDraws : scenario_begin(t, d) /\ Unobserved
    \/ \E t \in Tasks, d \in StepDraws : scenario_next(t, d) /\ Unobserved
    \/ \E t \in Tasks : scenario_end(t) /\ Unobserved
    \/ \E t \in Tasks, ok \in BOOLEAN : send_text_done(t, ok) /\ Unobserved
    \/ \E ws \in Sockets : connect(ws) /\ Unobserved
    \/ \E ws \in Sockets : client_close(ws) /\ Unobserved
    \/ \E ws \in Sockets : endpoint_disconnect(ws) /\ Unobserved

SpecWs == Init /\ [][NextWs]_vars

\* One scenario run that is never stopped, broadcasting to WebSocket
\* clients that connected before the run and go away at any time.
NextFair ==
    \/ \E scenario_id \in ScenarioIds :
          start_scenario(scenario_id, RunTasks) /\ Unobserved
    \/ \E t \in Tasks, d \in StepDraws : scenario_begin(t, d) /\ Unobserved
    \/ \E t \in Tasks, d \in StepDraws : scenario_next(t, d) /\ Unobserved
    \/ \E t \in Tasks : scenario_end(t) /\ Unobserved
    \/ \E t \in Tasks, ok \in BOOLEAN : send_text_done(t, ok) /\ Unobserved
    \/ \E ws \in Sockets : Created = {} /\ connect(ws) /\ Unobserved
    \/ \E ws \in Sockets : client_close(ws) /\ Unobserved
    \/ \E ws \in Sockets : endpoint_disconnect(ws) /\ Unobserved

\* The event loop keeps running the stepper: the created task gets its
\* first step, its sleep returns, and its send returns or raises.  (This
\* specification has at most one stepper.)
StepperRuns ==
    \E t \in Tasks :
        \/ \E d \in StepDraws : scenario_begin(t, d) /\ Unobserved
        \/ \E d \in StepDraws : scenario_next(t, d) /\ Unobserved
        \/ scenario_end(t) /\ Unobserved
        \/ \E ok \in BOOLEAN : send_text_done(t, ok) /\ Unobserved
StepperFairness == WF_vars(StepperRuns)

SpecFair == Init /\ [][NextFair]_vars /\ StepperFairness

\* Runs one after the other: a client that starts a scenario only once the
\* stepper of the run before has ended, and stops or resets at any time.
\* The WebSocket clients connect before the first run and stay.
NextSeq ==
    \/ \E scenario_id \in ScenarioIds :
          /\ running \/ Alive = {}
          /\ start_scenario(scenario_id, SeqRuns)
          /\ Unobserved
    \/ stop_simulation /\ Unobserved
    \/ \E seed \in {StartupSeed} : reset_simulation(seed) /\ Unobserved
    \/ \E t \in Tasks, d \in StepDraws : scenario_begin(t, d) /\ Unobserved
    \/ \E t \in Tasks, d \in StepDraws : scenario_next(t, d) /\ Unobserved
    \/ \E t \in Tasks : scenario_end(t) /\ Unobserved
    \/ \E t \in Tasks, ok \in BOOLEAN : send_text_done(t, ok) /\ Unobserved
    \/ \E ws \in Sockets : Created = {} /\ connect(ws) /\ Unobserved

SpecSeq == Init /\ [][NextSeq]_vars

\* One run (the client starts a scenario once) whose random draws reach
\* the tails, with resets and status reads arriving at any time.  The
\* messages handed to broadcast are recorded.
NextObs ==
    \/ \E scenario_id \in ScenarioIds :
          /\ running \/ Created = {}
          /\ start_scenario(scenario_id, MaxTasks)
          /\ Observe
    \/ \E seed \in {StartupSeed} : reset_simulation(seed) /\ Observe
    \/ get_status /\ Observe
    \/ \E t \in Tasks, d \in RangeDraws : scenario_begin(t, d) /\ Observe
    \/ \E t \in Tasks, d \in RangeDraws : scenario_next(t, d) /\ Observe
    \/ \E t \in Tasks : scenario_end(t) /\ Observe

SpecObs == Init /\ [][NextObs]_vars

\* Runs of scenario 3 that a client stops and starts again at any time,
\* broadcasting to WebSocket clients that connect and stay.  The order of
\* the passes in progress is recorded.
NextOrd ==
    \/ \E scenario_id \in {3, 4} :
          start_scenario(scenario_id, MaxTasks) /\ ObserveOrder
    \/ stop_simulation /\ ObserveOrder
    \/ \E t \in Tasks, d \in StepDraws : scenario_begin(t, d) /\ ObserveOrder
    \/ \E t \in Tasks, d \in StepDraws : scenario_next(t, d) /\ ObserveOrder
    \/ \E t \in Tasks : scenario_end(t) /\ ObserveOrder
    \/ \E t \in Tasks, ok \in BOOLEAN : send_text_done(t, ok) /\ ObserveOrder
    \/ \E ws \in Sockets : connect(ws) /\ ObserveOrder

SpecOrd == Init /\ [][NextOrd]_vars

\* ---------------------------------------------------------------- claims
ZoneNames == {"high_resource_slow", "medium", "fast_small"}
Snapshot == <<running, scenario, metrics, zone_status>>
Rest == <<hosts, vms, active_connections, sock, task>>

\* C1: at most one scenario stepper task is alive at a time, and a start
\* that is accepted leaves running = TRUE with exactly one alive stepper.
C1_AtMostOneStepper ==
    /\ Cardinality(Alive) <= 1
    /\ (resp.op = "start" /\ resp.code = 200)
            => (running /\ Cardinality(Alive) = 1)

\* C2: in every reachable state, running = TRUE implies that exactly one
\* scenario stepper task is alive.
C2_RunningHasOneStepper == running => Cardinality(Alive) = 1

\* C3: a stepper that was alive when stop (or reset) returned begins no
\* further step: it writes no snapshot and calls broadcast no more.
C3_StoppedStepperExits ==
    [][\A t \in stopped : task'[t].step = task[t].step]_vars

\* C4: a start request received while running = TRUE is answered 400 and
\* changes neither the snapshot nor the steppers nor anything else.
C4_StartWhileRunningRejected ==
    [][(running /\ resp'.op = "start")
            => /\ resp'.code = 400
               /\ UNCHANGED Snapshot
               /\ UNCHANGED Rest]_vars

C4_Witness ==
    /\ resp.op = "start" /\ resp.code = 400
    /\ running
    /\ \E t \in Alive : task[t].step > 0
    /\ metrics # ZeroMetrics

\* C5: a start request with an id outside {1,2,3}, received while
\* running = FALSE, is answered with a 4xx status, spawns no stepper and
\* leaves running = FALSE.
C5_InvalidIdClientError ==
    [][\A scenario_id \in ScenarioIds \ {1, 2, 3} :
        (~running /\ start_scenario(scenario_id, RunTasks))
            => /\ resp'.code \in 400..499
               /\ ~running'
               /\ task' = task]_vars

\* C6: stop always answers 200 and leaves running = FALSE and
\* scenario = "idle"; called in a state that a stop has left, it changes
\* nothing (calling it twice yields the state of calling it once).
C6_StopIdempotent ==
    [][resp'.op = "stop"
            => /\ resp'.code = 200
               /\ ~running'
               /\ scenario' = "idle"
               /\ UNCHANGED <<metrics, zone_status>>
               /\ UNCHANGED Rest
               /\ (~running /\ scenario = "idle") => UNCHANGED Snapshot]_vars

\* A stop with no stepper alive, after an earlier stop that hit a live one.
C6_Witness ==
    /\ resp.op = "stop"
    /\ Alive = {}
    /\ stopped # {}
    /\ ~running /\ scenario = "idle"

\* C7: the state reset leaves has running = FALSE, scenario = "idle", the
\* four percentages at 0, vm_migration_count at 0, every zone at
\* vm_count 0 and utilization 0, and an inventory of 5 hosts and 15 VMs.
C7_ResetBaseline ==
    resp.op = "reset"
        => /\ resp.code = 200
           /\ ~running
           /\ scenario = "idle"
           /\ metrics.cpu_utilization = 0
           /\ metrics.ram_usage = 0
           /\ metrics.storage_usage = 0
           /\ metrics.bandwidth_usage = 0
           /\ metrics.vm_migration_count = 0
           /\ \A z \in ZoneNames :
                /\ zone_status[z].vm_count = 0
                /\ zone_status[z].utilization = 0
           /\ Len(hosts) = 5
           /\ Len(vms) = 15
           /\ \A i \in 1..Len(vms) : vms[i].migration_count = 0

\* A reset after a stepper has counted migrations, the stepper still alive.
C7_Witness ==
    /\ resp.op = "reset"
    /\ \E t \in Alive : task[t].step > 8 /\ task[t].id = 2

\* C8: a connection whose send failed during a broadcast pass is not in
\* the registry once that pass has returned, and no send begun afterwards
\* is addressed to it.
C8_FailedSubscriberDropped ==
    [][/\ \A ws \in dropped' : ws \notin Range(active_connections')
       /\ \A t \in Tasks :
            (task'[t].pc = "send" /\ task'[t].attempts # task[t].attempts)
                => task'[t].cur \notin dropped']_vars

\* A later pass is under way while the dropped connection's endpoint has
\* not yet seen the disconnect.
C8_Witness ==
    \E ws \in dropped, t \in Tasks :
        /\ sock[ws] = "broken"
        /\ task[t].pc = "send"
        /\ Len(task[t].at_start) > 0

C10_NoSubscriberSkipped ==
    [][\A t \in Tasks :
        (task[t].pc = "send" /\ task'[t].pc = "sleep")
            => \A ws \in Range(task[t].at_start) :
                    ws \in Range(active_connections')
                        => ws \in Range(task[t].attempts)]_vars

\* Sockets that connect has registered, and those whose endpoint has run
\* manager.disconnect after the peer went away.
Connected == {ws \in Sockets : sock[ws] # "new"}
Disconnected == {ws \in Sockets : sock[ws] = "gone"}
\* No send has failed: none in a returned pass, none in a pass in progress.
NoDeliveryFailure ==
    /\ dropped = {}
    /\ \A t \in Tasks : task[t].disconnected = <<>>

\* C11: as long as no delivery has failed, after N connects and M
\* disconnects of distinct sockets the registry holds exactly the N - M
\* sockets that connected and were not disconnected, each once, also while
\* a broadcast pass is in progress.
C11_RegistryCount ==
    NoDeliveryFailure =>
        /\ Len(active_connections)
                = Cardinality(Connected) - Cardinality(Disconnected)
        /\ Range(active_connections) = Connected \ Disconnected

\* Two sockets connected and one was disconnected while a pass is suspended
\* in a send.
C11_Witness ==
    /\ NoDeliveryFailure
    /\ Cardinality(Connected) = 2
    /\ Cardinality(Disconnected) = 1
    /\ Len(active_connections) = 1
    /\ \E t \in Tasks : task[t].pc = "send"

\* C12: from one broadcast of a stepper to its next, vm_migration_count is
\* non-negative and does not decrease, whatever requests arrive in between.
C12_MigrationCountMonotone ==
    [][\A t \in Tasks :
        (task[t].step > 0 /\ task'[t].step # task[t].step)
            => /\ sent'[t].data.vm_migration_count >= 0
               /\ sent'[t].data.vm_migration_count
                    >= sent[t].data.vm_migration_count]_vars

\* C13: each socket is sent the messages in the order of the broadcast
\* calls: a pass never sends to a socket that was already sent the message
\* of a pass called after it.
C13_DeliveryInCallOrder ==
    \A t \in Tasks :
        task[t].pc = "send" => task[t].cur \notin passes[t].late

\* The pair is the one a single iteration of stepper t computed from some
\* draws, or the pair reset_simulation writes.
WrittenByOneStep(m, z) ==
    \E t \in Tasks :
        /\ Called(t)
        /\ \E d \in RangeDraws :
            LET r == scenario_step(task[t].id, task[t].step,
                                   metrics.vm_migration_count, d)
            IN  m = r.metrics /\ z = r.zone_status
WrittenByReset(m, z) ==
    resp'.op = "reset" /\ m = ZeroMetrics /\ z = ZeroZones

\* C14: the snapshot is never half-updated.  A step that changes metrics
\* or zone_status installs both from one iteration of one stepper or from
\* reset; the message a stepper hands to broadcast is the pair its step
\* wrote; a status read returns the pair of one moment.
C14_SnapshotAtomic ==
    [][/\ (metrics' # metrics \/ zone_status' # zone_status)
            => \/ WrittenByOneStep(metrics', zone_status')
               \/ WrittenByReset(metrics', zone_status')
       /\ \A t \in Tasks :
            Called(t) => sent'[t] = Message(metrics', zone_status')
       /\ resp'.op = "status"
            => /\ resp'.metrics = metrics
               /\ resp'.zone_status = zone_status]_vars

\* The status is read between two steps of a run, after a reset arrived
\* during the run.
C14_Witness ==
    /\ resp.op = "status"
    /\ resp.metrics # ZeroMetrics
    /\ \E t \in Tasks : task[t].pc = "sleep" /\ t \in stopped

PercentFields ==
    {"cpu_utilization", "ram_usage", "storage_usage", "bandwidth_usage"}
Percent == 0..(100 * U)

\* C15: in every message handed to broadcast, and in the snapshot itself,
\* the four percentage metrics are within [0, 100], whatever the scenario,
\* the step and the random deviates.
C15_PercentagesInRange ==
    /\ \A f \in PercentFields : metrics[f] \in Percent
    /\ \A t \in Tasks : \A f \in PercentFields : sent[t].data[f] \in Percent

\* A message of scenario 3 whose cpu_utilization and ram_usage were cut to
\* 100 by the clamp.
C15_Witness ==
    \E t \in Tasks :
        /\ task[t].id = 3
        /\ task[t].step > 0
        /\ sent[t].data.cpu_utilization = 100 * U
        /\ sent[t].data.ram_usage = 100 * U

\* C16: in every message handed to broadcast, each zone has a non-negative
\* vm_count and a utilization within [0, 100].
C16_ZonesInRange ==
    \A t \in Tasks : \A z \in ZoneNames :
        /\ sent[t].zone_status[z].vm_count >= 0
        /\ sent[t].zone_status[z].utilization \in Percent

\* C17: a stepper that no stop or reset interrupted leaves running true
\* and scenario at its label when it returns after its last step; running
\* then stays true until stop or reset, and every start request in the
\* meantime is rejected with 400 and creates no task.
C17_CompletionLeavesRunning ==
    [][/\ \A t \in Tasks :
            (task[t].pc = "sleep" /\ task'[t].pc = "done" /\ t \notin stopped)
                => running' /\ scenario' = Label(task[t].id)
       /\ (running /\ resp'.op \notin {"stop", "reset"}) => running'
       /\ (running /\ resp'.op = "start")
            => resp'.code = 400 /\ task' = task]_vars

\* A start request was rejected after the stepper had completed.
C17_Witness ==
    /\ resp = Response("start", 400)
    /\ running
    /\ \E t \in Tasks :
        /\ task[t].pc = "done"
        /\ t \notin stopped
        /\ scenario = Label(task[t].id)

\* C18: within one broadcast call no socket is sent the message more than
\* once, also when sockets connect or are disconnected while the pass is
\* suspended in a send.
C18_AtMostOnce ==
    \A t \in Tasks :
        Cardinality(Range(task[t].attempts)) = Len(task[t].attempts)

\* A pass has sent to two sockets and the registry is no longer the one it
\* was called with.
C18_Witness ==
    \E t \in Tasks :
        /\ task[t].pc = "send"
        /\ Len(task[t].attempts) >= 2
        /\ active_connections # task[t].at_start

\* C19: every created stepper returns, after exactly the step count of its
\* scenario.  A step is taken only when the pass of the step before has
\* returned; it writes the snapshot, calls broadcast once and advances the
\* step counter by one; a pass starts only with a step; the stepper
\* returns only after its last step.
C19_StepperTerminates ==
    /\ (Alive # {}) ~> (Alive = {})
    /\ [][\A t \in Tasks :
            /\ Called(t)
                => /\ task[t].pc \in {"spawned", "sleep"}
                   /\ task'[t].step = task[t].step + 1
                   /\ task'[t].step <= StepCount(task[t].id)
                   /\ task'[t].pc \in {"send", "sleep"}
                   /\ \E d \in StepDraws :
                        LET r == scenario_step(task[t].id, task[t].step,
                                        metrics.vm_migration_count, d)
                        IN  /\ metrics' = r.metrics
                            /\ zone_status' = r.zone_status
            /\ (task[t].pc # "send" /\ task'[t].pc = "send") => Called(t)
            /\ (task[t].pc # "done" /\ task'[t].pc = "done")
                => /\ task[t].pc = "sleep"
                   /\ task[t].step = StepCount(task[t].id)]_vars

\* A stepper has returned after its last step, having broadcast to
\* registered sockets.
C19_Witness ==
    \E t \in Tasks :
        /\ task[t].pc = "done"
        /\ task[t].step = StepCount(task[t].id)
        /\ active_connections # <<>>

\* C20: a stop request and an accepted start request leave metrics,
\* zone_status, the inventory and the registry as they are (stop writes
\* running and scenario, the accepted start writes running and creates the
\* stepper); vm_migration_count decreases only by a reset, so the first
\* step of a new run broadcasts a count at least as large as the one the
\* run before left.
C20_StopStartFrame ==
    [][/\ (resp'.op = "stop" \/ resp' = Response("start", 200))
            => UNCHANGED <<metrics, zone_status, hosts, vms,
                           active_connections>>
       /\ resp'.op = "stop" => UNCHANGED task
       /\ resp' = Response("start", 200) => UNCHANGED scenario
       /\ metrics'.vm_migration_count < metrics.vm_migration_count
            => resp'.op = "reset"
       /\ \A t \in Tasks :
            (task[t].pc = "spawned" /\ Called(t))
                => metrics'.vm_migration_count
                        >= metrics.vm_migration_count]_vars

\* The first step of a second run has broadcast, to a registered socket, a
\* count that continues the one the first run left.
C20_Witness ==
    /\ active_connections # <<>>
    /\ resp.op = "none"
    /\ \E t \in Tasks, o \in Tasks :
        /\ task[o].pc = "done"
        /\ task[t].pc = "send"
        /\ task[t].step = 1
        /\ metrics.vm_migration_count > 1

=============================================================================
